---- MODULE Spec2Model ----
(***************************************************************************)
(* The Spark Pit single-page application: AuthProvider, the route table    *)
(* with its RequireActive guard, the Login, Join and Settings pages, the   *)
(* Rooms page with its ChatPanel, and the bounty pages, as state machines. *)
(* The backend is not part of the repository's sources; its answers are    *)
(* the environment of the client.                                         *)
(***************************************************************************)
EXTENDS Integers, Sequences, FiniteSets, TLC

VARIABLES
    \* AuthContext (AuthProvider); started: the effects of the first render
    \* have run
    user, loading, spark_token, authHeader, started,
    \* react-router location
    location, search,
    \* requests of the auth flows in flight, and the toast the last step raised
    authNet, toast,
    \* Login page
    loginForm,
    \* Join page
    joinForm, invite, paymentStatus,
    \* Settings page
    inviteCode, auditEvents,
    \* backend: the account and its checkout session
    srvUser, srvPayment,
    \* AppShell (rooms, secondaryPanel) and RoomsSidebar (open, form)
    rooms, secondaryPanel, roomOpen, roomForm,
    \* ChannelsSidebar (open, form)
    channelOpen, channelForm,
    \* Rooms page: useParams() and its state
    slug, channelId, room, channels, membership,
    \* ChatPanel (messages, loading, draft) and the WebSockets it has open
    messages, chatLoading, draft, sockets,
    \* Bounties page (bounties, filters, open, form)
    bounties, filters, bountyOpen, bountyForm,
    \* BountyDetail page
    bounty, updates, comment, status,
    \* Bots page (bots, latestSecret, form)
    bots, latestSecret, botForm,
    \* requests of the pages under /app in flight
    appNet,
    \* backend: rooms, memberships, channels, messages, the bounty
    srvRooms, srvMember, srvChannels, srvLog, srvBounty, srvUpdates,
    \* backend: the bots registered
    srvBots

authVars == <<user, loading, spark_token, authHeader, started>>
routeVars == <<location, search>>
loginVars == <<loginForm>>
joinVars == <<joinForm, invite, paymentStatus>>
settingsVars == <<inviteCode, auditEvents>>
srvVars == <<srvUser, srvPayment>>

shellVars == <<rooms, secondaryPanel, roomOpen, roomForm>>
sideVars == <<channelOpen, channelForm>>
roomVars == <<slug, channelId, room, channels, membership>>
chatVars == <<messages, chatLoading, draft, sockets>>
bountiesVars == <<bounties, filters, bountyOpen, bountyForm>>
detailVars == <<bounty, updates, comment, status>>
botsVars == <<bots, latestSecret, botForm>>
pageVars == <<shellVars, sideVars, roomVars, chatVars, bountiesVars, detailVars,
              botsVars>>
appSrvVars == <<srvRooms, srvMember, srvChannels, srvLog, srvBounty, srvUpdates,
                srvBots>>
appVars == <<pageVars, appNet, appSrvVars>>

vars == <<user, loading, spark_token, authHeader, started, location, search, authNet,
          toast, loginForm, joinForm, invite, paymentStatus, inviteCode,
          auditEvents, srvUser, srvPayment, appVars>>

-----------------------------------------------------------------------------
(* Values *)

\* useState(null): no user
NoUser == [membership_status |-> "none", role |-> "none"]

\* response.data.user as the backend reports the account
UserView(s) == [membership_status |-> s.membership_status, role |-> s.role]

\* the page left by window.location.href = <checkout url>
External == "stripe"

\* the paths under the /app route that have a child route
AppChildPaths == {"/app/rooms", "/app/bounties", "/app/bounties/:id",
                  "/app/bots", "/app/settings"}

\* the paths a browser can be pointed at
Paths == {"/", "/login", "/join", "/app", "/app/activity", "/app/ops"}
             \cup AppChildPaths

Searches == {"", "session_id", "canceled"}

Tokens == {"none", "tok", "stale"}

Credentials == {"", "good", "bad"}

-----------------------------------------------------------------------------
(* Route table *)

\* RequireActive without its membership check
RequireActive_NoMembershipCheck(u, ld) ==
    IF ld THEN "LoadingScreen"
    ELSE IF u = NoUser THEN "/login"
    ELSE "children"

RequireActive(u, ld) ==
    IF ld THEN "LoadingScreen"
    ELSE IF u = NoUser THEN "/login"
    ELSE IF u.membership_status # "active" THEN "/join"
    ELSE "children"

\* the element the route table renders for a path, before any redirect
AppRoutes(p) ==
    CASE p = "/" -> "Landing"
      [] p = "/join" -> "Join"
      [] p = "/login" -> "Login"
      [] p = "/app" -> "AppIndex"
      [] p = "/app/rooms" -> "Rooms"
      [] p = "/app/bounties" -> "Bounties"
      [] p = "/app/bounties/:id" -> "BountyDetail"
      [] p = "/app/bots" -> "Bots"
      [] p = "/app/settings" -> "Settings"
      [] p = External -> "External"
      [] OTHER -> "CatchAll"

UnderAppShell(p) == AppRoutes(p) \in {"AppIndex", "Rooms", "Bounties",
                                      "BountyDetail", "Bots", "Settings"}

\* one <Navigate> or navigate() effect of the page rendered at p
Redirect(p, u, ld) ==
    LET el == AppRoutes(p) IN
    IF UnderAppShell(p)
    THEN LET g == RequireActive(u, ld) IN
         IF g = "LoadingScreen" THEN p
         ELSE IF g # "children" THEN g
         ELSE IF el = "AppIndex" THEN "/app/bounties" ELSE p
    ELSE IF el \in {"Login", "Join"}
    THEN IF u.membership_status = "active" THEN "/app" ELSE p
    ELSE IF el = "CatchAll" THEN "/"
    ELSE p

RECURSIVE Resolve(_, _, _)
Resolve(p, u, ld) ==
    LET q == Redirect(p, u, ld) IN
    IF q = p THEN p ELSE Resolve(q, u, ld)

\* what the browser shows
Screen(p, u, ld) ==
    IF UnderAppShell(p)
    THEN IF RequireActive(u, ld) = "children" THEN AppRoutes(p)
         ELSE IF RequireActive(u, ld) = "LoadingScreen" THEN "LoadingScreen"
         ELSE "Navigate"
    ELSE AppRoutes(p)

Showing == IF started THEN Screen(location, user, loading) ELSE "FirstRender"

AppShellShown ==
    UnderAppShell(location) /\ Showing \notin {"FirstRender", "LoadingScreen", "Navigate"}

-----------------------------------------------------------------------------
(* Requests in flight *)

\* op: the request; hdr: the Authorization header it was sent with;
\* arg: its payload; live: whether the component that awaits it is mounted
Req(op, arg) == [op |-> op, hdr |-> authHeader, arg |-> arg, live |-> TRUE]

JoinOps == {"checkout", "status", "status_me"}
SettingsOps == {"invite_codes", "audit"}

\* a component that unmounts keeps its requests, but its setState calls are
\* dropped from then on
Orphaned(net, from, to) ==
    LET gone == (IF from = "/join" /\ to # "/join" THEN JoinOps ELSE {})
                 \cup (IF from = "/app/settings" /\ to # "/app/settings"
                       THEN SettingsOps ELSE {}) IN
    {IF r.op \in gone THEN [r EXCEPT !.live = FALSE] ELSE r : r \in net}

\* the backend accepts the bearer token of a request
Authorized(r) == r.hdr = "tok" /\ srvUser.registered

\* at most MaxInFlight requests are started while others are in flight
MaxInFlight == 1

CanSend(net) == Cardinality(net) < MaxInFlight

-----------------------------------------------------------------------------
(* The pages under /app: values *)

Range(q) == {q[i] : i \in DOMAIN q}

\* useState(null) of Rooms.room and BountyDetail.bounty
NoRoom == ""
NoBounty == [id |-> "", status |-> ""]

\* useState(""): no bot secret to display
NoSecret == [bot |-> 0]

\* a channel without an id, and useParams() without the parameter
NoId == ""

\* the rooms the backend can hold, and the slug that navigate() builds from
\* an undefined slug
Slugs == {"a", "b", "c"}
UndefinedSlug == "undefined"

\* the id the backend gives the channel created in a room
NewChannel(s) == CASE s = "a" -> "a3" [] s = "b" -> "b2" [] OTHER -> "c1"

\* the bounty statuses of the status select
Statuses == {"open", "claimed", "submitted", "approved", "cancelled"}

\* REACT_APP_BACKEND_URL of the build
BACKEND_URL == [scheme |-> "https", host |-> "backend"]
NoBackend == [scheme |-> "", host |-> ""]

\* getWsUrl: "" without a backend URL; else https:// becomes wss://,
\* http:// becomes ws://, and the channel id is the channelId parameter
getWsUrl(id) ==
    IF BACKEND_URL = NoBackend
    THEN [scheme |-> "", host |-> "", path |-> "", channelId |-> ""]
    ELSE [scheme |-> CASE BACKEND_URL.scheme = "https" -> "wss"
                       [] BACKEND_URL.scheme = "http" -> "ws"
                       [] OTHER -> BACKEND_URL.scheme,
          host |-> BACKEND_URL.host, path |-> "/api/ws", channelId |-> id]

\* a request of a page under /app.  arg: the path parameter; body: the
\* payload; live: the component that awaits it is mounted; served, items:
\* the answer the backend has computed for it
AppReq(op, arg, body) ==
    [op |-> op, arg |-> arg, body |-> body, live |-> TRUE,
     served |-> FALSE, items |-> <<>>]

ShellOps == {"rooms", "create_room", "side_join"}
RoomsOps == {"room", "join"}
SideOps == {"create_channel"}
ChatOps == {"messages", "send"}
BountiesOps == {"bounties", "create_bounty"}
DetailOps == {"bounty", "claim", "update", "status"}
BotsOps == {"bots", "create_bot"}

\* at most MaxAppInFlight requests of the pages under /app are in flight:
\* no step is taken that would send one more
MaxAppInFlight == 3

\* a handler of a page under /app starts its request while fewer than
\* MaxInFlight requests are in flight
CanSendApp(net) == Cardinality(net) < MaxInFlight

-----------------------------------------------------------------------------
(* The pages under /app: what a render shows and what its effects do *)

AppPages == {"Rooms", "Bounties", "BountyDetail", "Bots", "Settings"}

\* Rooms: the gates of its render, in order
RoomsRenders(shown, s, c, rm, chs, mem) ==
    IF ~shown THEN "none"
    ELSE IF s = "" THEN "rooms-empty-state"
    ELSE IF rm = NoRoom THEN "rooms-loading"
    ELSE IF ~mem THEN "rooms-join-gate"
    ELSE IF c \notin Range(chs) THEN "channel-empty"
    ELSE "ChatPanel"

\* Rooms: the two navigating effects.  Both run after the same render, the
\* effect on [channels, channelId] last, so its navigate() is the one that
\* stays; it builds the path from the slug of that render.
RoomsEffects(s, c, chs, rs) ==
    LET toRoom == s = "" /\ rs # <<>>
        toChannel == chs # <<>> /\ c = NoId
    IN  IF toChannel
        THEN [slug |-> IF s = "" THEN UndefinedSlug ELSE s, channelId |-> chs[1]]
        ELSE IF toRoom THEN [slug |-> rs[1].slug, channelId |-> NoId]
        ELSE [slug |-> s, channelId |-> c]

\* ChatPanel's socket effect without its cleanup
CloseSockets_NoCleanup(open) == open

\* ChatPanel: return () => socket.close()
CloseSockets(open) == {}

\* ChatPanel: if (!channel?.id) return undefined;
\* const socket = new WebSocket(getWsUrl(channel.id))
OpenSocket(id) ==
    IF id = NoId THEN {} ELSE {[url |-> getWsUrl(id), queue |-> <<>>]}

\* ChatPanel: the sockets after a render; rerun: the effect on [channel?.id]
\* runs again
SocketsAfterRender(open, mounted, rerun, id) ==
    IF ~mounted THEN CloseSockets(open)
    ELSE IF rerun THEN CloseSockets(open) \cup OpenSocket(id)
    ELSE open

\* the values an action hands to the next render
Cur ==
    [rooms |-> rooms, slug |-> slug, channelId |-> channelId, room |-> room,
     channels |-> channels, membership |-> membership, fresh |-> FALSE,
     open |-> channelOpen, form |-> channelForm, net |-> appNet]

ShowingNext == IF started' THEN Screen(location', user', loading') ELSE "FirstRender"

\* The render that follows a step, with the effects it runs, for the pages
\* under /app; t: the values the step hands over.  A component that stays
\* mounted keeps its state; one that mounts starts from its useState()
\* values and runs its effects; the requests of one that unmounts are
\* orphaned.  To be used after user', loading', started' and location' are set.
AppRender(t) ==
    LET was == Showing
        now == ShowingNext
        shellWas == was \in AppPages
        shellNow == now \in AppPages
        shellKept == shellWas /\ shellNow
        roomsKept == was = "Rooms" /\ now = "Rooms"
        rs0 == IF shellKept THEN t.rooms ELSE <<>>
        rm0 == IF roomsKept THEN t.room ELSE NoRoom
        chs0 == IF roomsKept THEN t.channels ELSE <<>>
        mem0 == IF roomsKept THEN t.membership ELSE FALSE
        e == IF now = "Rooms" THEN RoomsEffects(t.slug, t.channelId, chs0, rs0)
             ELSE [slug |-> "", channelId |-> NoId]
        navigated == now = "Rooms" /\ (e.slug # t.slug \/ e.channelId # t.channelId)
        load == now = "Rooms" /\ e.slug # "" /\ (e.slug # slug \/ t.slug # slug)
        chatWas == RoomsRenders(was = "Rooms", slug, channelId, room, channels,
                                membership) = "ChatPanel"
        chatNow == RoomsRenders(now = "Rooms", e.slug, e.channelId, rm0, chs0,
                                mem0) = "ChatPanel"
        chatKept == chatWas /\ chatNow /\ roomsKept /\ ~navigated
        chatRerun == chatNow /\ (~chatKept \/ e.channelId # channelId)
        pathChanged == location' # location \/ e.slug # slug \/ e.channelId # channelId
        panel == IF ~shellKept \/ pathChanged THEN "QuickPanel"
                 ELSE IF roomsKept /\ rm0 # NoRoom /\ t.fresh THEN "ChannelsSidebar"
                 ELSE secondaryPanel
        sideKept == secondaryPanel = "ChannelsSidebar" /\ panel = "ChannelsSidebar"
        bountiesKept == was = "Bounties" /\ now = "Bounties"
        detailKept == was = "BountyDetail" /\ now = "BountyDetail"
        botsKept == was = "Bots" /\ now = "Bots"
        kept(op) == CASE op \in ShellOps -> shellKept
                      [] op \in RoomsOps -> roomsKept
                      [] op \in SideOps -> sideKept
                      [] op \in ChatOps -> chatKept
                      [] op \in BountiesOps -> bountiesKept
                      [] op \in DetailOps -> detailKept
                      [] op \in BotsOps -> botsKept
                      [] OTHER -> FALSE
    IN  /\ rooms' = rs0
        /\ secondaryPanel' = panel
        /\ roomOpen' = (shellKept /\ roomOpen)
        /\ roomForm' = IF shellKept THEN roomForm ELSE ""
        /\ channelOpen' = (sideKept /\ t.open)
        /\ channelForm' = IF sideKept THEN t.form ELSE ""
        /\ slug' = e.slug
        /\ channelId' = e.channelId
        /\ room' = IF now = "Rooms" THEN rm0 ELSE NoRoom
        /\ channels' = IF now = "Rooms" THEN chs0 ELSE <<>>
        /\ membership' = (now = "Rooms" /\ mem0)
        /\ messages' = IF chatKept THEN messages ELSE <<>>
        /\ chatLoading' = IF chatKept /\ ~chatRerun THEN chatLoading ELSE TRUE
        /\ draft' = IF chatKept THEN draft ELSE ""
        /\ sockets' = SocketsAfterRender(sockets, chatNow, chatRerun, e.channelId)
        /\ bounties' = IF bountiesKept THEN bounties ELSE {}
        /\ filters' = IF bountiesKept THEN filters ELSE ""
        /\ bountyOpen' = (bountiesKept /\ bountyOpen)
        /\ bountyForm' = IF bountiesKept THEN bountyForm ELSE ""
        /\ bounty' = IF detailKept THEN bounty ELSE NoBounty
        /\ updates' = IF detailKept THEN updates ELSE 0
        /\ comment' = IF detailKept THEN comment ELSE ""
        /\ status' = IF detailKept THEN status ELSE ""
        /\ bots' = IF botsKept THEN bots ELSE 0
        /\ latestSecret' = IF botsKept THEN latestSecret ELSE NoSecret
        /\ botForm' = IF botsKept THEN botForm ELSE ""
        /\ appNet' =
              {[r EXCEPT !.live = r.live /\ kept(r.op)] : r \in t.net}
              \cup (IF shellNow /\ ~shellWas THEN {AppReq("rooms", "", "")} ELSE {})
              \cup (IF load THEN {AppReq("room", e.slug, "")} ELSE {})
              \cup (IF chatRerun /\ e.channelId # NoId
                    THEN {AppReq("messages", e.channelId, "")} ELSE {})
              \cup (IF now = "Bounties" /\ ~bountiesKept
                    THEN {AppReq("bounties", "", "")} ELSE {})
              \cup (IF now = "BountyDetail" /\ ~detailKept
                    THEN {AppReq("bounty", "b1", "")} ELSE {})
              \cup (IF now = "Bots" /\ ~botsKept
                    THEN {AppReq("bots", "", "")} ELSE {})
        /\ Cardinality(appNet') <= MaxAppInFlight

\* no page under /app is mounted
AppUnloaded ==
    /\ rooms' = <<>> /\ secondaryPanel' = "QuickPanel"
    /\ roomOpen' = FALSE /\ roomForm' = ""
    /\ channelOpen' = FALSE /\ channelForm' = ""
    /\ slug' = "" /\ channelId' = NoId /\ room' = NoRoom
    /\ channels' = <<>> /\ membership' = FALSE
    /\ messages' = <<>> /\ chatLoading' = TRUE /\ draft' = "" /\ sockets' = {}
    /\ bounties' = {} /\ filters' = "" /\ bountyOpen' = FALSE /\ bountyForm' = ""
    /\ bounty' = NoBounty /\ updates' = 0 /\ comment' = "" /\ status' = ""
    /\ bots' = 0 /\ latestSecret' = NoSecret /\ botForm' = ""
    /\ appNet' = {}

-----------------------------------------------------------------------------
(* Page load *)

\* Join: useEffect on location.search, at mount
JoinSearchStatus(q) ==
    IF q = "session_id" THEN "Checking payment status..."
    ELSE IF q = "canceled" THEN "Payment canceled. Please try again."
    ELSE ""

\* The state a page load renders first: useState(null), useState(true); no
\* effect has run yet, so a <Navigate> it renders has not navigated.
FirstRender(p, q) == [ location |-> p, search |-> q ]

\* the useState() values of the components under /app
PagesIdle ==
    /\ rooms = <<>> /\ secondaryPanel = "QuickPanel"
    /\ roomOpen = FALSE /\ roomForm = ""
    /\ channelOpen = FALSE /\ channelForm = ""
    /\ room = NoRoom /\ channels = <<>> /\ membership = FALSE
    /\ messages = <<>> /\ chatLoading = TRUE /\ draft = "" /\ sockets = {}
    /\ bounties = {} /\ filters = "" /\ bountyOpen = FALSE /\ bountyForm = ""
    /\ bounty = NoBounty /\ updates = 0 /\ comment = "" /\ status = ""
    /\ bots = 0 /\ latestSecret = NoSecret /\ botForm = ""

\* the backend's data: room a is joined and has two channels, room b is not
\* joined, the bounty b1 is open
SrvAppInit ==
    /\ srvRooms = <<"a", "b">>
    /\ srvMember = [s \in Slugs |-> s = "a"]
    /\ srvChannels = [s \in Slugs |-> CASE s = "a" -> <<"a1", "a2">>
                                         [] s = "b" -> <<"b1">>
                                         [] OTHER -> <<>>]
    /\ srvLog = <<>>
    /\ srvBounty = [i \in {"b1"} |-> "open"]
    /\ srvUpdates = 0
    /\ srvBots = 0

\* An active member has loaded the application at a path under /app, with
\* the parameters s and c for the Rooms page, and bootstrap() has answered:
\* AppShell and the page have mounted and their effects have run.
InApp(p, s, c) ==
    /\ srvUser = [registered |-> TRUE, membership_status |-> "active",
                  role |-> "member"]
    /\ srvPayment = "none"
    /\ spark_token = "tok" /\ authHeader = "tok"
    /\ user = UserView(srvUser)
    /\ loading = FALSE /\ started = TRUE
    /\ location = p /\ search = ""
    /\ authNet = {} /\ toast = ""
    /\ loginForm = "" /\ joinForm = "" /\ invite = "" /\ paymentStatus = ""
    /\ inviteCode = "" /\ auditEvents = {}
    /\ PagesIdle
    /\ slug = s /\ channelId = c
    /\ appNet = {AppReq("rooms", "", "")}
                   \cup (IF p = "/app/rooms" /\ s # "" THEN {AppReq("room", s, "")}
                         ELSE {})
                   \cup (IF p = "/app/bounties" THEN {AppReq("bounties", "", "")}
                         ELSE {})
                   \cup (IF p = "/app/bounties/:id" THEN {AppReq("bounty", "b1", "")}
                         ELSE {})
                   \cup (IF p = "/app/bots" THEN {AppReq("bots", "", "")} ELSE {})
    /\ SrvAppInit

Init ==
    \E p \in Paths, q \in Searches, tok \in Tokens,
       reg \in BOOLEAN, ms \in {"pending", "active"}, role \in {"member", "admin"} :
       /\ q # "" => p = "/join"
       /\ tok = "tok" => reg
       /\ ~reg => (ms = "pending" /\ role = "member")
       /\ srvUser = [registered |-> reg, membership_status |-> ms, role |-> role]
       /\ srvPayment = "none"
       /\ spark_token = tok
       /\ user = NoUser
       /\ loading = TRUE
       /\ authHeader = "none"
       /\ started = FALSE
       /\ location = FirstRender(p, q).location
       /\ search = FirstRender(p, q).search
       /\ authNet = {}
       /\ paymentStatus = ""
       /\ toast = ""
       /\ loginForm = ""
       /\ joinForm = ""
       /\ invite = ""
       /\ inviteCode = ""
       /\ auditEvents = {}
       /\ PagesIdle
       /\ slug = "" /\ channelId = NoId
       /\ appNet = {}
       /\ SrvAppInit

-----------------------------------------------------------------------------
(* Settings page: what depends on the user *)

isAdmin(u) == u.role = "admin"

SettingsShown(p, u, ld) == Screen(p, u, ld) = "Settings"

\* useEffect(() => { if (isAdmin) loadAudit(); }, [isAdmin]): at mount, and
\* when isAdmin changes
AuditEffectRuns(wasShown, u, isShown, v) ==
    /\ isShown
    /\ ~wasShown \/ isAdmin(u) # isAdmin(v)
    /\ isAdmin(v)

\* the audit card
AuditCard(u, events) ==
    IF ~isAdmin(u) THEN [restricted |-> TRUE, events |-> {}]
    ELSE [restricted |-> FALSE, events |-> events]

\* the invite card with its button never disabled
GenerateEnabled_Always(u) == TRUE

\* the invite card: disabled={!isAdmin} on the input and the button
GenerateEnabled(u) == isAdmin(u)

-----------------------------------------------------------------------------
(* Navigation *)

\* The router moves to t and follows the redirects of the pages it renders;
\* a page that unmounts loses its state.  To be used after user' and
\* loading' are set.
NavTo(t, r) ==
    /\ location' = Resolve(t, user', loading')
    /\ search' = IF location' = location THEN search ELSE ""
    /\ loginForm' = IF location' = "/login" /\ location = "/login" THEN loginForm ELSE ""
    /\ IF location' = "/join" /\ location = "/join"
       THEN UNCHANGED joinVars
       ELSE joinForm' = "" /\ invite' = "" /\ paymentStatus' = ""
    /\ IF SettingsShown(location', user', loading') /\ Showing = "Settings"
       THEN UNCHANGED settingsVars
       ELSE inviteCode' = "" /\ auditEvents' = {}
    /\ AppRender(r)
    /\ UNCHANGED appSrvVars

\* the router moves to t with the parameters of the current URL
Nav(t) == NavTo(t, Cur)

\* the requests left in flight after a step that may have moved the router
\* or changed the user: those of unmounted components are orphaned, and
\* Settings' effect on [isAdmin] sends GET /admin/audit
NetAfter(base) ==
    Orphaned(base, location, location')
        \cup (IF AuditEffectRuns(Showing = "Settings", user,
                                 SettingsShown(location', user', loading'), user')
              THEN {[op |-> "audit", hdr |-> authHeader', arg |-> "", live |-> TRUE]}
              ELSE {})

\* <Link to=...> of the page shown
Links(el) ==
    CASE el = "Landing" -> {"/join", "/login"}
      [] el = "Login" -> {"/join"}
      [] el = "Join" -> {"/login"}
      [] el \in {"Rooms", "Bounties", "BountyDetail", "Bots", "Settings"} ->
            {"/app/rooms", "/app/bounties", "/app/bots", "/app/settings"}
      [] OTHER -> {}

FollowLink(t) ==
    /\ t \in Links(Showing)
    /\ t # location \/ slug # ""
    /\ toast' = ""
    /\ UNCHANGED <<authVars, srvVars>>
    /\ NavTo(t, [Cur EXCEPT !.slug = "", !.channelId = NoId])
    /\ authNet' = NetAfter(authNet)

\* the browser loads the application at p?q: a reload, a typed URL, or the
\* return from the checkout page.  Nothing of the old page survives but
\* localStorage.
PageLoad(p, q) ==
    /\ q # "" => p = "/join"
    /\ location = External => p = "/join"
    /\ user' = NoUser
    /\ loading' = TRUE
    /\ authHeader' = "none"
    /\ started' = FALSE
    /\ location' = FirstRender(p, q).location
    /\ search' = FirstRender(p, q).search
    /\ authNet' = {}
    /\ paymentStatus' = ""
    /\ toast' = ""
    /\ loginForm' = ""
    /\ joinForm' = ""
    /\ invite' = ""
    /\ inviteCode' = ""
    /\ auditEvents' = {}
    /\ AppUnloaded
    /\ UNCHANGED <<spark_token, srvVars, appSrvVars>>

-----------------------------------------------------------------------------
(* AuthProvider *)

\* The effects of the first render.  Join's effect on location.search runs
\* first (a child's effects run before its parents'), so its status request
\* leaves before bootstrap() sets the Authorization header.  bootstrap()
\* without a stored token ends at once; with one it sends GET /me.
Bootstrap ==
    /\ ~started
    /\ location # External
    /\ started' = TRUE
    /\ authHeader' = spark_token
    /\ loading' = (spark_token # "none")
    /\ toast' = ""
    /\ UNCHANGED <<user, spark_token, srvVars>>
    /\ location' = Resolve(location, user', loading')
    /\ search' = IF location' = location THEN search ELSE ""
    /\ paymentStatus' = IF location' = "/join" THEN JoinSearchStatus(search') ELSE ""
    /\ authNet' =
          (IF spark_token # "none"
           THEN {[op |-> "bootstrap_me", hdr |-> spark_token, arg |-> "", live |-> TRUE]}
           ELSE {})
          \cup (IF location' = "/join" /\ search' = "session_id"
                THEN {[op |-> "status", hdr |-> "none", arg |-> "", live |-> TRUE]}
                ELSE {})
    /\ UNCHANGED <<loginVars, joinForm, invite, settingsVars>>
    /\ AppRender(Cur)
    /\ UNCHANGED appSrvVars

\* bootstrap(): GET /me answered
BootstrapOk(r) ==
    /\ r \in authNet /\ r.op = "bootstrap_me"
    /\ Authorized(r)
    /\ user' = UserView(srvUser)
    /\ loading' = FALSE
    /\ toast' = ""
    /\ UNCHANGED <<spark_token, authHeader, started, srvVars>>
    /\ Nav(location)
    /\ authNet' = NetAfter(authNet \ {r})

\* bootstrap(): GET /me rejected or lost
BootstrapFail(r) ==
    /\ r \in authNet /\ r.op = "bootstrap_me"
    /\ spark_token' = "none"
    /\ authHeader' = "none"
    /\ loading' = FALSE
    /\ toast' = ""
    /\ UNCHANGED <<user, started, srvVars>>
    /\ Nav(location)
    /\ authNet' = NetAfter(authNet \ {r})

\* logout(), from the Settings page
Logout ==
    /\ Showing = "Settings"
    /\ spark_token' = "none"
    /\ authHeader' = "none"
    /\ user' = NoUser
    /\ toast' = ""
    /\ UNCHANGED <<loading, started, srvVars>>
    /\ Nav(location)
    /\ authNet' = NetAfter(authNet)

-----------------------------------------------------------------------------
(* Login page *)

SetLoginForm(v) ==
    /\ Showing = "Login"
    /\ v # loginForm
    /\ loginForm' = v
    /\ toast' = ""
    /\ UNCHANGED <<authVars, routeVars, authNet, joinVars, settingsVars, srvVars>>
    /\ UNCHANGED appVars

\* handleLogin: login(form.email, form.password) sends POST /auth/login; the
\* form is usable while bootstrap() still awaits its GET /me
HandleLogin ==
    /\ Showing = "Login"
    /\ CanSend({r \in authNet : r.op # "bootstrap_me"})
    /\ Req("login", loginForm) \notin authNet
    /\ authNet' = authNet \cup {Req("login", loginForm)}
    /\ toast' = ""
    /\ UNCHANGED <<authVars, routeVars, loginVars, joinVars, settingsVars, srvVars>>
    /\ UNCHANGED appVars

\* login() stores the token and the user; handleLogin then navigates
LoginOk(r) ==
    /\ r \in authNet /\ r.op = "login"
    /\ r.arg = "good" /\ srvUser.registered
    /\ spark_token' = "tok"
    /\ authHeader' = "tok"
    /\ user' = UserView(srvUser)
    /\ toast' = "Welcome back to the Pit."
    /\ UNCHANGED <<loading, started, srvVars>>
    /\ Nav(IF user'.membership_status = "active" THEN "/app" ELSE "/join")
    /\ authNet' = NetAfter(authNet \ {r})

\* handleLogin sending its request again when it has failed
LoginFail_Retry(r) ==
    /\ r \in authNet /\ r.op = "login"
    /\ toast' = "Login failed."
    /\ authNet' = authNet
    /\ UNCHANGED <<authVars, routeVars, loginVars, joinVars, settingsVars, srvVars>>
    /\ UNCHANGED appVars

\* handleLogin: catch (error) { toast.error("Login failed."); }
LoginFail(r) ==
    /\ r \in authNet /\ r.op = "login"
    /\ toast' = "Login failed."
    /\ authNet' = authNet \ {r}
    /\ UNCHANGED <<authVars, routeVars, loginVars, joinVars, settingsVars, srvVars>>
    /\ UNCHANGED appVars

-----------------------------------------------------------------------------
(* Join page *)

\* {!user && ...}: the registration card
RegisterCardShown(u) == u = NoUser

\* the activation card without its test for a user
ActivationCardShown_NoUserTest(u) == u.membership_status # "active"

\* {user && user.membership_status !== "active" && ...}: the activation card
ActivationCardShown(u) == u # NoUser /\ u.membership_status # "active"

SetJoinForm(v) ==
    /\ Showing = "Join" /\ RegisterCardShown(user)
    /\ v # joinForm
    /\ joinForm' = v
    /\ toast' = ""
    /\ UNCHANGED <<authVars, routeVars, authNet, loginVars, invite,
                   paymentStatus, settingsVars, srvVars>>
    /\ UNCHANGED appVars
SetInvite(v) ==
    /\ Showing = "Join" /\ ActivationCardShown(user)
    /\ v # invite
    /\ invite' = v
    /\ toast' = ""
    /\ UNCHANGED <<authVars, routeVars, authNet, loginVars, joinForm,
                   paymentStatus, settingsVars, srvVars>>
    /\ UNCHANGED appVars

\* handleRegister: register(...) sends POST /auth/register
HandleRegister ==
    /\ Showing = "Join" /\ RegisterCardShown(user)
    /\ CanSend(authNet)
    /\ Req("register", joinForm) \notin authNet
    /\ authNet' = authNet \cup {Req("register", joinForm)}
    /\ toast' = ""
    /\ UNCHANGED <<authVars, routeVars, loginVars, joinVars,
                   settingsVars, srvVars>>
    /\ UNCHANGED appVars
RegisterOk(r) ==
    /\ r \in authNet /\ r.op = "register"
    /\ r.arg = "filled" /\ ~srvUser.registered
    /\ srvUser' = [registered |-> TRUE, membership_status |-> "pending",
                   role |-> "member"]
    /\ spark_token' = "tok"
    /\ authHeader' = "tok"
    /\ user' = UserView(srvUser')
    /\ toast' = "Account forged. Activate with your invite code."
    /\ UNCHANGED <<loading, started, srvPayment>>
    /\ Nav(location)
    /\ authNet' = NetAfter(authNet \ {r})

RegisterFail(r) ==
    /\ r \in authNet /\ r.op = "register"
    /\ toast' = "Registration failed."
    /\ authNet' = authNet \ {r}
    /\ UNCHANGED <<authVars, routeVars, loginVars, joinVars, settingsVars, srvVars>>
    /\ UNCHANGED appVars

\* claimInvite: POST /auth/invite/claim
ClaimInvite ==
    /\ Showing = "Join" /\ ActivationCardShown(user)
    /\ CanSend(authNet)
    /\ Req("claim", invite) \notin authNet
    /\ authNet' = authNet \cup {Req("claim", invite)}
    /\ toast' = ""
    /\ UNCHANGED <<authVars, routeVars, loginVars, joinVars,
                   settingsVars, srvVars>>
    /\ UNCHANGED appVars

\* the claim is accepted; claimInvite goes on to await refresh(): GET /me
ClaimOk(r) ==
    /\ r \in authNet /\ r.op = "claim"
    /\ r.arg = "good" /\ Authorized(r)
    /\ srvUser' = [srvUser EXCEPT !.membership_status = "active"]
    /\ authNet' = (authNet \ {r}) \cup {Req("claim_me", "")}
    /\ toast' = ""
    /\ UNCHANGED <<authVars, routeVars, loginVars, joinVars,
                   settingsVars, srvPayment>>
    /\ UNCHANGED appVars
ClaimFail(r) ==
    /\ r \in authNet /\ r.op = "claim"
    /\ toast' = "Invite claim failed."
    /\ authNet' = authNet \ {r}
    /\ UNCHANGED <<authVars, routeVars, loginVars, joinVars, settingsVars, srvVars>>
    /\ UNCHANGED appVars

\* refresh() answered: setUser, toast, navigate("/app")
ClaimMeOk(r) ==
    /\ r \in authNet /\ r.op = "claim_me"
    /\ Authorized(r)
    /\ user' = UserView(srvUser)
    /\ toast' = "Membership activated."
    /\ UNCHANGED <<loading, spark_token, authHeader, started, srvVars>>
    /\ Nav("/app")
    /\ authNet' = NetAfter(authNet \ {r})

ClaimMeFail(r) ==
    /\ r \in authNet /\ r.op = "claim_me"
    /\ toast' = "Invite claim failed."
    /\ authNet' = authNet \ {r}
    /\ UNCHANGED <<authVars, routeVars, loginVars, joinVars, settingsVars, srvVars>>
    /\ UNCHANGED appVars

\* startCheckout: POST /payments/stripe/checkout
StartCheckout ==
    /\ Showing = "Join" /\ ActivationCardShown(user)
    /\ CanSend(authNet)
    /\ Req("checkout", "") \notin authNet
    /\ paymentStatus' = "Redirecting to Stripe checkout..."
    /\ authNet' = authNet \cup {Req("checkout", "")}
    /\ toast' = ""
    /\ UNCHANGED <<authVars, routeVars, loginVars, joinForm, invite,
                   settingsVars, srvVars>>
    /\ UNCHANGED appVars

\* window.location.href = response.data.url: the browser leaves the
\* application for the checkout page
CheckoutOk(r) ==
    /\ r \in authNet /\ r.op = "checkout"
    /\ Authorized(r)
    /\ srvPayment' = "open"
    /\ user' = NoUser
    /\ loading' = TRUE
    /\ authHeader' = "none"
    /\ started' = FALSE
    /\ location' = External
    /\ search' = ""
    /\ authNet' = {}
    /\ toast' = ""
    /\ loginForm' = ""
    /\ joinForm' = ""
    /\ invite' = ""
    /\ paymentStatus' = ""
    /\ inviteCode' = ""
    /\ auditEvents' = {}
    /\ AppUnloaded
    /\ UNCHANGED <<spark_token, srvUser, appSrvVars>>

CheckoutFail(r) ==
    /\ r \in authNet /\ r.op = "checkout"
    /\ toast' = "Unable to start checkout."
    /\ paymentStatus' = IF r.live THEN "Unable to start checkout." ELSE paymentStatus
    /\ authNet' = authNet \ {r}
    /\ UNCHANGED <<authVars, routeVars, loginVars, joinForm, invite,
                   settingsVars, srvVars>>
    /\ UNCHANGED appVars

\* checkPaymentStatus: what GET /payments/stripe/checkout/status/{id} reports
StatusReport == 
    CASE srvPayment = "paid" -> "paid"
      [] srvPayment = "expired" -> "expired"
      [] OTHER -> "processing"

\* checkPaymentStatus without its test for an expired session
StatusMessage_NoExpiredTest(rep) ==
    IF rep = "paid" THEN "Payment confirmed. Membership activated."
    ELSE "Payment is processing. Refresh in a moment."

\* checkPaymentStatus: the message set for a response, payment_status
\* tested first, then status
StatusMessage(rep) ==
    CASE rep = "paid" -> "Payment confirmed. Membership activated."
      [] rep = "expired" -> "Payment session expired. Try again."
      [] OTHER -> "Payment is processing. Refresh in a moment."

\* checkPaymentStatus, the response read; a "paid" one goes on to await
\* refresh(): GET /me
CheckPaymentStatusOk(r) ==
    /\ r \in authNet /\ r.op = "status"
    /\ srvPayment # "none"
    /\ paymentStatus' = IF ~r.live THEN paymentStatus ELSE StatusMessage(StatusReport)
    /\ authNet' = (authNet \ {r}) \cup
                     (IF StatusReport = "paid"
                      THEN {[Req("status_me", "") EXCEPT !.live = r.live]}
                      ELSE {})
    /\ toast' = ""
    /\ UNCHANGED <<authVars, routeVars, loginVars, joinForm, invite,
                   settingsVars, srvVars>>
    /\ UNCHANGED appVars
CheckPaymentStatusFail(r) ==
    /\ r \in authNet /\ r.op \in {"status", "status_me"}
    /\ paymentStatus' = IF r.live THEN "Unable to verify payment status."
                                  ELSE paymentStatus
    /\ authNet' = authNet \ {r}
    /\ toast' = ""
    /\ UNCHANGED <<authVars, routeVars, loginVars, joinForm, invite,
                   settingsVars, srvVars>>
    /\ UNCHANGED appVars

\* checkPaymentStatus after refresh(): navigate("/app")
CheckPaymentStatusMeOk(r) ==
    /\ r \in authNet /\ r.op = "status_me"
    /\ Authorized(r)
    /\ user' = UserView(srvUser)
    /\ toast' = ""
    /\ UNCHANGED <<loading, spark_token, authHeader, started, srvVars>>
    /\ Nav("/app")
    /\ authNet' = NetAfter(authNet \ {r})

-----------------------------------------------------------------------------
(* Settings page *)

\* generateInvite: POST /admin/invite-codes
GenerateInvite ==
    /\ Showing = "Settings" /\ GenerateEnabled(user)
    /\ CanSend(authNet)
    /\ Req("invite_codes", "") \notin authNet
    /\ authNet' = authNet \cup {Req("invite_codes", "")}
    /\ toast' = ""
    /\ UNCHANGED <<authVars, routeVars, loginVars, joinVars,
                   settingsVars, srvVars>>
    /\ UNCHANGED appVars

\* the backend serves /admin/... to an admin only
AdminAuthorized(r) == Authorized(r) /\ srvUser.role = "admin"

GenerateInviteOk(r) ==
    /\ r \in authNet /\ r.op = "invite_codes"
    /\ AdminAuthorized(r)
    /\ inviteCode' = IF r.live THEN "code" ELSE inviteCode
    /\ toast' = "Invite generated."
    /\ authNet' = authNet \ {r}
    /\ UNCHANGED <<authVars, routeVars, loginVars, joinVars, auditEvents, srvVars>>
    /\ UNCHANGED appVars
GenerateInviteFail(r) ==
    /\ r \in authNet /\ r.op = "invite_codes"
    /\ toast' = "Unable to generate invite."
    /\ authNet' = authNet \ {r}
    /\ UNCHANGED <<authVars, routeVars, loginVars, joinVars, settingsVars, srvVars>>
    /\ UNCHANGED appVars

\* loadAudit: GET /admin/audit answered
LoadAuditOk(r) ==
    /\ r \in authNet /\ r.op = "audit"
    /\ AdminAuthorized(r)
    /\ auditEvents' = IF r.live THEN {"event"} ELSE auditEvents
    /\ authNet' = authNet \ {r}
    /\ toast' = ""
    /\ UNCHANGED <<authVars, routeVars, loginVars, joinVars, inviteCode, srvVars>>
    /\ UNCHANGED appVars
LoadAuditFail(r) ==
    /\ r \in authNet /\ r.op = "audit"
    /\ toast' = "Unable to load audit feed."
    /\ authNet' = authNet \ {r}
    /\ UNCHANGED <<authVars, routeVars, loginVars, joinVars, settingsVars, srvVars>>
    /\ UNCHANGED appVars

\* updateProfile: PATCH /me, then await refresh()
UpdateProfile ==
    /\ Showing = "Settings"
    /\ CanSend(authNet)
    /\ Req("patch_me", "") \notin authNet
    /\ authNet' = authNet \cup {Req("patch_me", "")}
    /\ toast' = ""
    /\ UNCHANGED <<authVars, routeVars, loginVars, joinVars,
                   settingsVars, srvVars>>
    /\ UNCHANGED appVars
UpdateProfileOk(r) ==
    /\ r \in authNet /\ r.op = "patch_me"
    /\ Authorized(r)
    /\ authNet' = (authNet \ {r}) \cup {Req("profile_me", "")}
    /\ toast' = ""
    /\ UNCHANGED <<authVars, routeVars, loginVars, joinVars,
                   settingsVars, srvVars>>
    /\ UNCHANGED appVars
UpdateProfileMeOk(r) ==
    /\ r \in authNet /\ r.op = "profile_me"
    /\ Authorized(r)
    /\ user' = UserView(srvUser)
    /\ toast' = "Profile updated."
    /\ UNCHANGED <<loading, spark_token, authHeader, started, srvVars>>
    /\ Nav(location)
    /\ authNet' = NetAfter(authNet \ {r})

UpdateProfileFail(r) ==
    /\ r \in authNet /\ r.op \in {"patch_me", "profile_me"}
    /\ toast' = "Unable to update profile."
    /\ authNet' = authNet \ {r}
    /\ UNCHANGED <<authVars, routeVars, loginVars, joinVars, settingsVars, srvVars>>
    /\ UNCHANGED appVars

-----------------------------------------------------------------------------
(* Backend events no request of this client causes *)

\* the checkout is paid: the webhook activates the membership
StripePaid ==
    /\ srvPayment = "open"
    /\ srvPayment' = "paid"
    /\ srvUser' = [srvUser EXCEPT !.membership_status = "active"]
    /\ toast' = ""
    /\ UNCHANGED <<authVars, routeVars, authNet, loginVars, joinVars,
                   settingsVars>>
    /\ UNCHANGED appVars
StripeExpired ==
    /\ srvPayment = "open"
    /\ srvPayment' = "expired"
    /\ toast' = ""
    /\ UNCHANGED <<authVars, routeVars, authNet, loginVars, joinVars,
                   settingsVars, srvUser>>
    /\ UNCHANGED appVars

\* python -m sparkpit.create_admin with FORCE=1 promotes an existing user
CreateAdmin ==
    /\ srvUser.registered /\ srvUser.role # "admin"
    /\ srvUser' = [srvUser EXCEPT !.role = "admin"]
    /\ toast' = ""
    /\ UNCHANGED <<authVars, routeVars, authNet, loginVars, joinVars,
                   settingsVars, srvPayment>>
    /\ UNCHANGED appVars

-----------------------------------------------------------------------------
(* The authentication and onboarding flows *)
NextAuth ==
    \/ \E t \in Paths : FollowLink(t)
    \/ \E p \in Paths, q \in Searches : PageLoad(p, q)
    \/ Bootstrap
    \/ \E r \in authNet : BootstrapOk(r)
    \/ \E r \in authNet : BootstrapFail(r)
    \/ Logout
    \/ \E v \in Credentials : SetLoginForm(v)
    \/ HandleLogin
    \/ \E r \in authNet : LoginOk(r)
    \/ \E r \in authNet : LoginFail(r)
    \/ \E v \in {"", "filled"} : SetJoinForm(v)
    \/ \E v \in Credentials : SetInvite(v)
    \/ HandleRegister
    \/ \E r \in authNet : RegisterOk(r)
    \/ \E r \in authNet : RegisterFail(r)
    \/ ClaimInvite
    \/ \E r \in authNet : ClaimOk(r)
    \/ \E r \in authNet : ClaimFail(r)
    \/ \E r \in authNet : ClaimMeOk(r)
    \/ \E r \in authNet : ClaimMeFail(r)
    \/ StartCheckout
    \/ \E r \in authNet : CheckoutOk(r)
    \/ \E r \in authNet : CheckoutFail(r)
    \/ \E r \in authNet : CheckPaymentStatusOk(r)
    \/ \E r \in authNet : CheckPaymentStatusFail(r)
    \/ \E r \in authNet : CheckPaymentStatusMeOk(r)
    \/ GenerateInvite
    \/ \E r \in authNet : GenerateInviteOk(r)
    \/ \E r \in authNet : GenerateInviteFail(r)
    \/ \E r \in authNet : LoadAuditOk(r)
    \/ \E r \in authNet : LoadAuditFail(r)
    \/ UpdateProfile
    \/ \E r \in authNet : UpdateProfileOk(r)
    \/ \E r \in authNet : UpdateProfileMeOk(r)
    \/ \E r \in authNet : UpdateProfileFail(r)
    \/ StripePaid
    \/ StripeExpired
    \/ CreateAdmin

SpecAuth == Init /\ [][NextAuth]_vars

-----------------------------------------------------------------------------
(* AppShell and RoomsSidebar *)

authSide == <<authVars, routeVars, authNet, loginVars, joinVars, settingsVars, srvVars>>

\* a step of a page under /app that leaves the router where it is, followed
\* by the render of t
Rerender(t) ==
    /\ UNCHANGED authSide
    /\ AppRender(t)

\* GET /rooms: response.data.items
RoomList ==
    [i \in DOMAIN srvRooms |->
        [slug |-> srvRooms[i], joined |-> srvMember[srvRooms[i]]]]

\* fetchRooms answered: setRooms(response.data.items || [])
FetchRoomsOk(r) ==
    /\ r \in appNet /\ r.op = "rooms"
    /\ toast' = ""
    /\ Rerender([Cur EXCEPT !.rooms = IF r.live THEN RoomList ELSE rooms,
                            !.net = appNet \ {r}])
    /\ UNCHANGED appSrvVars

FetchRoomsFail(r) ==
    /\ r \in appNet /\ r.op = "rooms"
    /\ toast' = "Unable to load rooms."
    /\ appNet' = appNet \ {r}
    /\ UNCHANGED <<authSide, pageVars, appSrvVars>>

\* RoomsSidebar: a room of the list is clicked,
\* navigate(`/app/rooms/${room.slug}`)
SelectRoom(s) ==
    /\ Showing \in AppPages
    /\ \E i \in DOMAIN rooms : rooms[i].slug = s
    /\ location # "/app/rooms" \/ slug # s \/ channelId # NoId
    /\ toast' = ""
    /\ UNCHANGED <<authVars, srvVars>>
    /\ NavTo("/app/rooms", [Cur EXCEPT !.slug = s, !.channelId = NoId])
    /\ authNet' = NetAfter(authNet)

\* RoomsSidebar.joinRoom(slug), offered for a room that is not joined
SideJoinRoom(s) ==
    /\ Showing \in AppPages
    /\ \E i \in DOMAIN rooms : rooms[i].slug = s /\ ~rooms[i].joined
    /\ CanSendApp(appNet)
    /\ appNet' = appNet \cup {AppReq("side_join", s, "")}
    /\ toast' = ""
    /\ UNCHANGED <<authSide, pageVars, appSrvVars>>

\* toast.success("Joined room."); refreshRooms()
SideJoinRoomOk(r) ==
    /\ r \in appNet /\ r.op = "side_join"
    /\ r.arg \in Range(srvRooms)
    /\ srvMember' = [srvMember EXCEPT ![r.arg] = TRUE]
    /\ toast' = "Joined room."
    /\ appNet' = (appNet \ {r}) \cup {[AppReq("rooms", "", "") EXCEPT !.live = r.live]}
    /\ UNCHANGED <<authSide, pageVars, srvRooms, srvChannels, srvLog, srvBounty,
                   srvUpdates, srvBots>>

SideJoinRoomFail(r) ==
    /\ r \in appNet /\ r.op = "side_join"
    /\ toast' = "Unable to join room."
    /\ appNet' = appNet \ {r}
    /\ UNCHANGED <<authSide, pageVars, appSrvVars>>

\* RoomsSidebar: the dialog is opened or closed
SetRoomOpen(b) ==
    /\ Showing \in AppPages
    /\ b # roomOpen
    /\ roomOpen' = b
    /\ toast' = ""
    /\ UNCHANGED <<authSide, rooms, secondaryPanel, roomForm, sideVars, roomVars,
                   chatVars, bountiesVars, detailVars, appNet, appSrvVars, botsVars>>

SetRoomForm(v) ==
    /\ Showing \in AppPages /\ roomOpen
    /\ v # roomForm
    /\ roomForm' = v
    /\ toast' = ""
    /\ UNCHANGED <<authSide, rooms, secondaryPanel, roomOpen, sideVars, roomVars,
                   chatVars, bountiesVars, detailVars, appNet, appSrvVars, botsVars>>

\* RoomsSidebar.createRoom: POST /rooms with the form
CreateRoom ==
    /\ Showing \in AppPages /\ roomOpen
    /\ CanSendApp(appNet)
    /\ AppReq("create_room", "", roomForm) \notin appNet
    /\ appNet' = appNet \cup {AppReq("create_room", "", roomForm)}
    /\ toast' = ""
    /\ UNCHANGED <<authSide, pageVars, appSrvVars>>

\* toast.success("Room forged."); setOpen(false); setForm({...});
\* refreshRooms()
CreateRoomOk(r) ==
    /\ r \in appNet /\ r.op = "create_room"
    /\ r.body = "filled" /\ "c" \notin Range(srvRooms)
    /\ srvRooms' = Append(srvRooms, "c")
    /\ toast' = "Room forged."
    /\ roomOpen' = (roomOpen /\ ~r.live)
    /\ roomForm' = IF r.live THEN "" ELSE roomForm
    /\ appNet' = (appNet \ {r}) \cup {[AppReq("rooms", "", "") EXCEPT !.live = r.live]}
    /\ UNCHANGED <<authSide, rooms, secondaryPanel, sideVars, roomVars, chatVars,
                   bountiesVars, detailVars, srvMember, srvChannels, srvLog,
                   srvBounty, srvUpdates, botsVars, srvBots>>

CreateRoomFail(r) ==
    /\ r \in appNet /\ r.op = "create_room"
    /\ toast' = "Room creation failed."
    /\ appNet' = appNet \ {r}
    /\ UNCHANGED <<authSide, pageVars, appSrvVars>>

-----------------------------------------------------------------------------
(* Rooms page and ChannelsSidebar *)

RoomsShows == RoomsRenders(Showing = "Rooms", slug, channelId, room, channels,
                           membership)

\* loadRoom answered: setRoom, setChannels, setMembership; the Rooms page is
\* one component for every slug, so the answer for any slug it has asked for
\* is taken
LoadRoomOk(r) ==
    /\ r \in appNet /\ r.op = "room"
    /\ r.arg \in Range(srvRooms)
    /\ toast' = ""
    /\ Rerender(IF r.live
                THEN [Cur EXCEPT !.room = r.arg, !.channels = srvChannels[r.arg],
                                 !.membership = srvMember[r.arg], !.fresh = TRUE,
                                 !.net = appNet \ {r}]
                ELSE [Cur EXCEPT !.net = appNet \ {r}])
    /\ UNCHANGED appSrvVars

LoadRoomFail(r) ==
    /\ r \in appNet /\ r.op = "room"
    /\ toast' = "Room unavailable."
    /\ appNet' = appNet \ {r}
    /\ UNCHANGED <<authSide, pageVars, appSrvVars>>

\* Rooms.joinRoom, the button of the join gate: POST /rooms/${slug}/join
JoinRoom ==
    /\ RoomsShows = "rooms-join-gate"
    /\ CanSendApp(appNet)
    /\ AppReq("join", slug, "") \notin appNet
    /\ appNet' = appNet \cup {AppReq("join", slug, "")}
    /\ toast' = ""
    /\ UNCHANGED <<authSide, pageVars, appSrvVars>>

\* toast.success("Joined room."); loadRoom(), with the slug of the render
\* the button was clicked in
JoinRoomOk(r) ==
    /\ r \in appNet /\ r.op = "join"
    /\ r.arg \in Range(srvRooms)
    /\ srvMember' = [srvMember EXCEPT ![r.arg] = TRUE]
    /\ toast' = "Joined room."
    /\ appNet' = (appNet \ {r})
                    \cup {[AppReq("room", r.arg, "") EXCEPT !.live = r.live]}
    /\ UNCHANGED <<authSide, pageVars, srvRooms, srvChannels, srvLog, srvBounty,
                   srvUpdates, srvBots>>

JoinRoomFail(r) ==
    /\ r \in appNet /\ r.op = "join"
    /\ toast' = "Unable to join room."
    /\ appNet' = appNet \ {r}
    /\ UNCHANGED <<authSide, pageVars, appSrvVars>>

\* ChannelsSidebar: a channel is clicked,
\* navigate(`/app/rooms/${room.slug}/${channel.id}`)
SelectChannel(c) ==
    /\ Showing = "Rooms" /\ secondaryPanel = "ChannelsSidebar"
    /\ c \in Range(channels)
    /\ slug # room \/ channelId # c
    /\ toast' = ""
    /\ Rerender([Cur EXCEPT !.slug = room, !.channelId = c])
    /\ UNCHANGED appSrvVars

SetChannelOpen(b) ==
    /\ Showing = "Rooms" /\ secondaryPanel = "ChannelsSidebar"
    /\ b # channelOpen
    /\ channelOpen' = b
    /\ toast' = ""
    /\ UNCHANGED <<authSide, shellVars, channelForm, roomVars, chatVars,
                   bountiesVars, detailVars, appNet, appSrvVars, botsVars>>

SetChannelForm(v) ==
    /\ Showing = "Rooms" /\ secondaryPanel = "ChannelsSidebar" /\ channelOpen
    /\ v # channelForm
    /\ channelForm' = v
    /\ toast' = ""
    /\ UNCHANGED <<authSide, shellVars, channelOpen, roomVars, chatVars,
                   bountiesVars, detailVars, appNet, appSrvVars, botsVars>>

\* ChannelsSidebar.createChannel: POST /rooms/${room.slug}/channels
CreateChannel ==
    /\ Showing = "Rooms" /\ secondaryPanel = "ChannelsSidebar" /\ channelOpen
    /\ CanSendApp(appNet)
    /\ AppReq("create_channel", room, channelForm) \notin appNet
    /\ appNet' = appNet \cup {AppReq("create_channel", room, channelForm)}
    /\ toast' = ""
    /\ UNCHANGED <<authSide, pageVars, appSrvVars>>

\* toast.success("Channel online."); setOpen(false); setForm({...});
\* onChannelCreated(response.data.channel)
CreateChannelOk(r) ==
    /\ r \in appNet /\ r.op = "create_channel"
    /\ r.body = "filled" /\ r.arg \in Range(srvRooms)
    /\ NewChannel(r.arg) \notin Range(srvChannels[r.arg])
    /\ srvChannels' = [srvChannels EXCEPT ![r.arg] = Append(@, NewChannel(r.arg))]
    /\ toast' = "Channel online."
    /\ Rerender(IF r.live
                THEN [Cur EXCEPT !.channels = Append(channels, NewChannel(r.arg)),
                                 !.fresh = TRUE, !.open = FALSE, !.form = "",
                                 !.net = appNet \ {r}]
                ELSE [Cur EXCEPT !.net = appNet \ {r}])
    /\ UNCHANGED <<srvRooms, srvMember, srvLog, srvBounty, srvUpdates, srvBots>>

CreateChannelFail(r) ==
    /\ r \in appNet /\ r.op = "create_channel"
    /\ toast' = "Channel creation failed."
    /\ appNet' = appNet \ {r}
    /\ UNCHANGED <<authSide, pageVars, appSrvVars>>

-----------------------------------------------------------------------------
(* ChatPanel *)

\* the backend creates at most MaxMessages messages
MaxMessages == 2

\* socket.onmessage with the events delivered in reverse
OnMessage_Prepend(prev, data) ==
    IF data.type = "message_created" THEN <<data.message>> \o prev ELSE prev

\* socket.onmessage: setMessages((prev) => [...prev, data.message]) for an
\* event of type message_created
OnMessage(prev, data) ==
    IF data.type = "message_created" THEN Append(prev, data.message) ELSE prev

\* the message the backend creates next in channel c
NextMessage(c) == [id |-> Len(srvLog) + 1, ch |-> c]

\* the backend pushes a created message to the connections subscribed to
\* its channel
Broadcast(open, m) ==
    {IF s.url.channelId = m.ch
     THEN [s EXCEPT !.queue = Append(@, [type |-> "message_created", message |-> m])]
     ELSE s : s \in open}

\* GET /channels/${id}/messages: the items the backend holds for the channel
History(c) == SelectSeq(srvLog, LAMBDA m : m.ch = c)

\* another member posts in channel c
OtherPosts(c) ==
    /\ \E s \in Range(srvRooms) : c \in Range(srvChannels[s])
    /\ Len(srvLog) < MaxMessages
    /\ srvLog' = Append(srvLog, NextMessage(c))
    /\ sockets' = Broadcast(sockets, NextMessage(c))
    /\ toast' = ""
    /\ UNCHANGED <<authSide, shellVars, sideVars, roomVars, messages, chatLoading,
                   draft, bountiesVars, detailVars, appNet, srvRooms, srvMember,
                   srvChannels, srvBounty, srvUpdates, botsVars, srvBots>>

\* an event reaches socket.onmessage; a closed socket delivers none
WsDeliver(s) ==
    /\ s \in sockets /\ s.queue # <<>>
    /\ messages' = OnMessage(messages, Head(s.queue))
    /\ sockets' = (sockets \ {s}) \cup {[s EXCEPT !.queue = Tail(@)]}
    /\ toast' = ""
    /\ UNCHANGED <<authSide, shellVars, sideVars, roomVars, chatLoading, draft,
                   bountiesVars, detailVars, appNet, appSrvVars, botsVars>>

\* the backend reads the channel's messages for a loadMessages request
ServeMessages(r) ==
    /\ r \in appNet /\ r.op = "messages" /\ ~r.served
    /\ appNet' = (appNet \ {r})
                    \cup {[r EXCEPT !.served = TRUE, !.items = History(r.arg)]}
    /\ toast' = ""
    /\ UNCHANGED <<authSide, pageVars, appSrvVars>>

\* loadMessages answered: setMessages(response.data.items || []);
\* finally setLoading(false)
LoadMessagesOk(r) ==
    /\ r \in appNet /\ r.op = "messages" /\ r.served
    /\ messages' = IF r.live THEN r.items ELSE messages
    /\ chatLoading' = (chatLoading /\ ~r.live)
    /\ appNet' = appNet \ {r}
    /\ toast' = ""
    /\ UNCHANGED <<authSide, shellVars, sideVars, roomVars, draft, sockets,
                   bountiesVars, detailVars, appSrvVars, botsVars>>

LoadMessagesFail(r) ==
    /\ r \in appNet /\ r.op = "messages"
    /\ chatLoading' = (chatLoading /\ ~r.live)
    /\ appNet' = appNet \ {r}
    /\ toast' = "Unable to load messages."
    /\ UNCHANGED <<authSide, shellVars, sideVars, roomVars, messages, draft,
                   sockets, bountiesVars, detailVars, appSrvVars, botsVars>>

SetDraft(v) ==
    /\ RoomsShows = "ChatPanel"
    /\ v # draft
    /\ draft' = v
    /\ toast' = ""
    /\ UNCHANGED <<authSide, shellVars, sideVars, roomVars, messages, chatLoading,
                   sockets, bountiesVars, detailVars, appNet, appSrvVars, botsVars>>

\* sendMessage: if (!draft.trim()) return; POST /channels/${channel.id}/messages
SendMessage ==
    /\ RoomsShows = "ChatPanel"
    /\ draft # ""
    /\ CanSendApp(appNet)
    /\ AppReq("send", channelId, draft) \notin appNet
    /\ appNet' = appNet \cup {AppReq("send", channelId, draft)}
    /\ toast' = ""
    /\ UNCHANGED <<authSide, pageVars, appSrvVars>>

\* the backend creates the message and broadcasts it; sendMessage appends
\* response.data.message and clears the draft
SendMessageOk(r) ==
    /\ r \in appNet /\ r.op = "send"
    /\ Len(srvLog) < MaxMessages
    /\ srvLog' = Append(srvLog, NextMessage(r.arg))
    /\ sockets' = Broadcast(sockets, NextMessage(r.arg))
    /\ messages' = IF r.live THEN Append(messages, NextMessage(r.arg)) ELSE messages
    /\ draft' = IF r.live THEN "" ELSE draft
    /\ appNet' = appNet \ {r}
    /\ toast' = ""
    /\ UNCHANGED <<authSide, shellVars, sideVars, roomVars, chatLoading,
                   bountiesVars, detailVars, srvRooms, srvMember, srvChannels,
                   srvBounty, srvUpdates, botsVars, srvBots>>

SendMessageFail(r) ==
    /\ r \in appNet /\ r.op = "send"
    /\ toast' = "Message failed to send."
    /\ appNet' = appNet \ {r}
    /\ UNCHANGED <<authSide, pageVars, appSrvVars>>

-----------------------------------------------------------------------------
(* Bounties page *)

\* GET /bounties with the status filter f: response.data.items
BountyList(f) ==
    {[id |-> i, status |-> srvBounty[i]] :
        i \in {j \in DOMAIN srvBounty : f = "" \/ srvBounty[j] = f}}

\* loadBounties answered: setBounties(response.data.items || [])
LoadBountiesOk(r) ==
    /\ r \in appNet /\ r.op = "bounties"
    /\ bounties' = IF r.live THEN BountyList(r.body) ELSE bounties
    /\ appNet' = appNet \ {r}
    /\ toast' = ""
    /\ UNCHANGED <<authSide, shellVars, sideVars, roomVars, chatVars, filters,
                   bountyOpen, bountyForm, detailVars, appSrvVars, botsVars>>

LoadBountiesFail(r) ==
    /\ r \in appNet /\ r.op = "bounties"
    /\ toast' = "Unable to load bounties."
    /\ appNet' = appNet \ {r}
    /\ UNCHANGED <<authSide, pageVars, appSrvVars>>

\* the status filter is edited; the effect on [filters] calls loadBounties,
\* whatever is in flight
SetFilters(v) ==
    /\ Showing = "Bounties"
    /\ v # filters
    /\ Cardinality(appNet) < MaxAppInFlight
    /\ filters' = v
    /\ appNet' = appNet \cup {AppReq("bounties", "", v)}
    /\ toast' = ""
    /\ UNCHANGED <<authSide, shellVars, sideVars, roomVars, chatVars, bounties,
                   bountyOpen, bountyForm, detailVars, appSrvVars, botsVars>>

SetBountyOpen(b) ==
    /\ Showing = "Bounties"
    /\ b # bountyOpen
    /\ bountyOpen' = b
    /\ toast' = ""
    /\ UNCHANGED <<authSide, shellVars, sideVars, roomVars, chatVars, bounties,
                   filters, bountyForm, detailVars, appNet, appSrvVars, botsVars>>

SetBountyForm(v) ==
    /\ Showing = "Bounties" /\ bountyOpen
    /\ v # bountyForm
    /\ bountyForm' = v
    /\ toast' = ""
    /\ UNCHANGED <<authSide, shellVars, sideVars, roomVars, chatVars, bounties,
                   filters, bountyOpen, detailVars, appNet, appSrvVars, botsVars>>

\* createBounty: POST /bounties with the form; arg keeps the filters of the
\* render, which the loadBounties() that follows will use
CreateBounty ==
    /\ Showing = "Bounties" /\ bountyOpen
    /\ CanSendApp(appNet)
    /\ AppReq("create_bounty", filters, bountyForm) \notin appNet
    /\ appNet' = appNet \cup {AppReq("create_bounty", filters, bountyForm)}
    /\ toast' = ""
    /\ UNCHANGED <<authSide, pageVars, appSrvVars>>

\* toast.success("Bounty posted."); setOpen(false); setForm({...});
\* loadBounties()
CreateBountyOk(r) ==
    /\ r \in appNet /\ r.op = "create_bounty"
    /\ r.body = "filled" /\ "b2" \notin DOMAIN srvBounty
    /\ srvBounty' = [i \in DOMAIN srvBounty \cup {"b2"} |->
                        IF i = "b2" THEN "open" ELSE srvBounty[i]]
    /\ toast' = "Bounty posted."
    /\ bountyOpen' = (bountyOpen /\ ~r.live)
    /\ bountyForm' = IF r.live THEN "" ELSE bountyForm
    /\ appNet' = (appNet \ {r})
                    \cup {[AppReq("bounties", "", r.arg) EXCEPT !.live = r.live]}
    /\ UNCHANGED <<authSide, shellVars, sideVars, roomVars, chatVars, bounties,
                   filters, detailVars, srvRooms, srvMember, srvChannels, srvLog,
                   srvUpdates, botsVars, srvBots>>

CreateBountyFail(r) ==
    /\ r \in appNet /\ r.op = "create_bounty"
    /\ toast' = "Unable to create bounty."
    /\ appNet' = appNet \ {r}
    /\ UNCHANGED <<authSide, pageVars, appSrvVars>>

\* the card of bounty b1 is clicked: navigate(`/app/bounties/${bounty.id}`)
OpenBounty ==
    /\ Showing = "Bounties"
    /\ \E b \in bounties : b.id = "b1"
    /\ toast' = ""
    /\ UNCHANGED <<authVars, srvVars>>
    /\ Nav("/app/bounties/:id")
    /\ authNet' = NetAfter(authNet)

-----------------------------------------------------------------------------
(* BountyDetail page *)

\* the backend records at most MaxUpdates updates of the bounty
MaxUpdates == 1

\* loadBounty without its setStatus
LoadBountyOk_NoSetStatus(r) ==
    /\ r \in appNet /\ r.op = "bounty"
    /\ bounty' = IF r.live THEN [id |-> r.arg, status |-> srvBounty[r.arg]]
                           ELSE bounty
    /\ updates' = IF r.live THEN srvUpdates ELSE updates
    /\ appNet' = appNet \ {r}
    /\ toast' = ""
    /\ UNCHANGED <<authSide, shellVars, sideVars, roomVars, chatVars,
                   bountiesVars, comment, status, appSrvVars, botsVars>>

\* loadBounty answered: setBounty, setUpdates, setStatus
LoadBountyOk(r) ==
    /\ r \in appNet /\ r.op = "bounty"
    /\ bounty' = IF r.live THEN [id |-> r.arg, status |-> srvBounty[r.arg]]
                           ELSE bounty
    /\ updates' = IF r.live THEN srvUpdates ELSE updates
    /\ status' = IF r.live THEN srvBounty[r.arg] ELSE status
    /\ appNet' = appNet \ {r}
    /\ toast' = ""
    /\ UNCHANGED <<authSide, shellVars, sideVars, roomVars, chatVars,
                   bountiesVars, comment, appSrvVars, botsVars>>

LoadBountyFail(r) ==
    /\ r \in appNet /\ r.op = "bounty"
    /\ toast' = "Unable to load bounty."
    /\ appNet' = appNet \ {r}
    /\ UNCHANGED <<authSide, pageVars, appSrvVars>>

\* claimBounty, the button of the claim card, which is never disabled:
\* POST /bounties/${id}/claim
ClaimBounty ==
    /\ Showing = "BountyDetail" /\ bounty # NoBounty
    /\ CanSendApp(appNet)
    /\ AppReq("claim", bounty.id, "") \notin appNet
    /\ appNet' = appNet \cup {AppReq("claim", bounty.id, "")}
    /\ toast' = ""
    /\ UNCHANGED <<authSide, pageVars, appSrvVars>>

\* the backend's claim endpoint accepting a bounty in any status
ClaimAccepted_AnyStatus(st) == TRUE

\* the backend's claim endpoint: "Only open bounties can be claimed."
ClaimAccepted(st) == st = "open"

\* toast.success("Bounty claimed."); loadBounty()
ClaimBountyOk(r) ==
    /\ r \in appNet /\ r.op = "claim"
    /\ ClaimAccepted(srvBounty[r.arg])
    /\ srvBounty' = [srvBounty EXCEPT ![r.arg] = "claimed"]
    /\ toast' = "Bounty claimed."
    /\ appNet' = (appNet \ {r})
                    \cup {[AppReq("bounty", r.arg, "") EXCEPT !.live = r.live]}
    /\ UNCHANGED <<authSide, pageVars, srvRooms, srvMember, srvChannels, srvLog,
                   srvUpdates, srvBots>>

ClaimBountyFail(r) ==
    /\ r \in appNet /\ r.op = "claim"
    /\ toast' = "Unable to claim bounty."
    /\ appNet' = appNet \ {r}
    /\ UNCHANGED <<authSide, pageVars, appSrvVars>>

SetComment(v) ==
    /\ Showing = "BountyDetail" /\ bounty # NoBounty
    /\ v # comment
    /\ comment' = v
    /\ toast' = ""
    /\ UNCHANGED <<authSide, shellVars, sideVars, roomVars, chatVars,
                   bountiesVars, bounty, updates, status, appNet, appSrvVars, botsVars>>

\* addUpdate: POST /bounties/${id}/updates with the comment
AddUpdate ==
    /\ Showing = "BountyDetail" /\ bounty # NoBounty
    /\ CanSendApp(appNet)
    /\ AppReq("update", bounty.id, comment) \notin appNet
    /\ appNet' = appNet \cup {AppReq("update", bounty.id, comment)}
    /\ toast' = ""
    /\ UNCHANGED <<authSide, pageVars, appSrvVars>>

\* setUpdates((prev) => [...prev, response.data.update]); setComment("")
AddUpdateOk(r) ==
    /\ r \in appNet /\ r.op = "update"
    /\ srvUpdates < MaxUpdates
    /\ srvUpdates' = srvUpdates + 1
    /\ updates' = IF r.live THEN updates + 1 ELSE updates
    /\ comment' = IF r.live THEN "" ELSE comment
    /\ appNet' = appNet \ {r}
    /\ toast' = ""
    /\ UNCHANGED <<authSide, shellVars, sideVars, roomVars, chatVars,
                   bountiesVars, bounty, status, srvRooms, srvMember, srvChannels,
                   srvLog, srvBounty, botsVars, srvBots>>

AddUpdateFail(r) ==
    /\ r \in appNet /\ r.op = "update"
    /\ toast' = "Unable to add update."
    /\ appNet' = appNet \ {r}
    /\ UNCHANGED <<authSide, pageVars, appSrvVars>>

\* the status select
SetStatus(v) ==
    /\ Showing = "BountyDetail" /\ bounty # NoBounty
    /\ v # status
    /\ status' = v
    /\ toast' = ""
    /\ UNCHANGED <<authSide, shellVars, sideVars, roomVars, chatVars,
                   bountiesVars, bounty, updates, comment, appNet, appSrvVars, botsVars>>

\* updateStatus: POST /bounties/${id}/status with the selected status
UpdateStatus ==
    /\ Showing = "BountyDetail" /\ bounty # NoBounty
    /\ CanSendApp(appNet)
    /\ AppReq("status", bounty.id, status) \notin appNet
    /\ appNet' = appNet \cup {AppReq("status", bounty.id, status)}
    /\ toast' = ""
    /\ UNCHANGED <<authSide, pageVars, appSrvVars>>

\* toast.success("Status updated."); loadBounty()
UpdateStatusOk(r) ==
    /\ r \in appNet /\ r.op = "status"
    /\ r.body \in Statuses
    /\ srvBounty' = [srvBounty EXCEPT ![r.arg] = r.body]
    /\ toast' = "Status updated."
    /\ appNet' = (appNet \ {r})
                    \cup {[AppReq("bounty", r.arg, "") EXCEPT !.live = r.live]}
    /\ UNCHANGED <<authSide, pageVars, srvRooms, srvMember, srvChannels, srvLog,
                   srvUpdates, srvBots>>

UpdateStatusFail(r) ==
    /\ r \in appNet /\ r.op = "status"
    /\ toast' = "Unable to update status."
    /\ appNet' = appNet \ {r}
    /\ UNCHANGED <<authSide, pageVars, appSrvVars>>

-----------------------------------------------------------------------------
(* The Rooms page, from a page load by an active member *)

InitRooms ==
    \E s \in {"", "a", "b"}, c \in {NoId, "a1", "b1"} :
       /\ s = "" => c = NoId
       /\ InApp("/app/rooms", s, c)

NextRooms ==
    \/ \E r \in appNet : FetchRoomsOk(r)
    \/ \E r \in appNet : FetchRoomsFail(r)
    \/ \E s \in Slugs : SelectRoom(s)
    \/ \E t \in {"/app/rooms", "/app/bounties"} : FollowLink(t)
    \/ \E r \in appNet : LoadRoomOk(r)
    \/ \E r \in appNet : LoadRoomFail(r)
    \/ JoinRoom
    \/ \E r \in appNet : JoinRoomOk(r)
    \/ \E r \in appNet : JoinRoomFail(r)
    \/ \E c \in {"a1", "a2", "b1"} : SelectChannel(c)

SpecRooms == InitRooms /\ [][NextRooms]_vars

\* the page is loaded at channel a1 of room a
InitChat == InApp("/app/rooms", "a", "a1")

(* The dialogs of RoomsSidebar and ChannelsSidebar, from a page load at    *)
(* channel a1 of room a                                                    *)

NextSidebars ==
    \/ \E r \in appNet : FetchRoomsOk(r)
    \/ \E r \in appNet : LoadRoomOk(r)
    \/ \E r \in appNet : LoadMessagesFail(r)
    \/ \E s \in {"c"} : SelectRoom(s)
    \/ \E s \in Slugs : SideJoinRoom(s)
    \/ \E r \in appNet : SideJoinRoomOk(r)
    \/ \E r \in appNet : SideJoinRoomFail(r)
    \/ \E b \in BOOLEAN : SetRoomOpen(b)
    \/ \E v \in {"", "filled"} : SetRoomForm(v)
    \/ CreateRoom
    \/ \E r \in appNet : CreateRoomOk(r)
    \/ \E r \in appNet : CreateRoomFail(r)
    \/ \E b \in BOOLEAN : SetChannelOpen(b)
    \/ \E v \in {"", "filled"} : SetChannelForm(v)
    \/ CreateChannel
    \/ \E r \in appNet : CreateChannelOk(r)
    \/ \E r \in appNet : CreateChannelFail(r)

SpecSidebars == InitChat /\ [][NextSidebars]_vars

(* The ChatPanel, from a page load at channel a1 of room a *)

NextChat ==
    \/ \E r \in appNet : FetchRoomsOk(r)
    \/ \E r \in appNet : LoadRoomOk(r)
    \/ \E c \in {"a1", "a2"} : SelectChannel(c)
    \/ \E t \in {"/app/bounties"} : FollowLink(t)
    \/ \E c \in {"a1", "a2"} : OtherPosts(c)
    \/ \E s \in sockets : WsDeliver(s)
    \/ \E r \in appNet : ServeMessages(r)
    \/ \E r \in appNet : LoadMessagesOk(r)
    \/ \E r \in appNet : LoadMessagesFail(r)
    \/ \E v \in {"", "text"} : SetDraft(v)
    \/ SendMessage
    \/ \E r \in appNet : SendMessageOk(r)
    \/ \E r \in appNet : SendMessageFail(r)

SpecChat == InitChat /\ [][NextChat]_vars

(* The bounty detail page of bounty b1, from a page load *)

InitBounty == InApp("/app/bounties/:id", "", NoId)

NextBounty ==
    \/ \E r \in appNet : FetchRoomsOk(r)
    \/ \E r \in appNet : LoadBountyOk(r)
    \/ \E r \in appNet : LoadBountyFail(r)
    \/ ClaimBounty
    \/ \E r \in appNet : ClaimBountyOk(r)
    \/ \E r \in appNet : ClaimBountyFail(r)
    \/ \E v \in Statuses : SetStatus(v)
    \/ UpdateStatus
    \/ \E r \in appNet : UpdateStatusOk(r)
    \/ \E r \in appNet : UpdateStatusFail(r)
    \/ \E v \in {"", "text"} : SetComment(v)
    \/ AddUpdate
    \/ \E r \in appNet : AddUpdateOk(r)
    \/ \E r \in appNet : AddUpdateFail(r)
    \/ \E t \in {"/app/bounties"} : FollowLink(t)
    \/ \E r \in appNet : LoadBountiesOk(r)
    \/ \E r \in appNet : LoadBountiesFail(r)
    \/ \E b \in BOOLEAN : SetBountyOpen(b)
    \/ \E v \in {"", "filled"} : SetBountyForm(v)
    \/ CreateBounty
    \/ \E r \in appNet : CreateBountyOk(r)
    \/ \E r \in appNet : CreateBountyFail(r)
    \/ OpenBounty

SpecBounty == InitBounty /\ [][NextBounty]_vars

(* Bots page *)

\* the backend registers at most MaxBots bots
MaxBots == 2

\* response.data.bot_secret of the bot the backend registers next
NextSecret == [bot |-> srvBots + 1]

\* loadBots answered: setBots(response.data.items || [])
LoadBotsOk(r) ==
    /\ r \in appNet /\ r.op = "bots"
    /\ bots' = IF r.live THEN srvBots ELSE bots
    /\ appNet' = appNet \ {r}
    /\ toast' = ""
    /\ UNCHANGED <<authSide, shellVars, sideVars, roomVars, chatVars, bountiesVars,
                   detailVars, latestSecret, botForm, appSrvVars>>

LoadBotsFail(r) ==
    /\ r \in appNet /\ r.op = "bots"
    /\ toast' = "Unable to load bots."
    /\ appNet' = appNet \ {r}
    /\ UNCHANGED <<authSide, pageVars, appSrvVars>>

SetBotForm(v) ==
    /\ Showing = "Bots"
    /\ v # botForm
    /\ botForm' = v
    /\ toast' = ""
    /\ UNCHANGED <<authSide, shellVars, sideVars, roomVars, chatVars, bountiesVars,
                   detailVars, bots, latestSecret, appNet, appSrvVars>>

\* createBot, the Register bot button: await api.post("/bots", payload)
CreateBot ==
    /\ Showing = "Bots"
    /\ CanSendApp(appNet)
    /\ AppReq("create_bot", "first", botForm) \notin appNet
    /\ appNet' = appNet \cup {AppReq("create_bot", "first", botForm)}
    /\ toast' = ""
    /\ UNCHANGED <<authSide, pageVars, appSrvVars>>

\* the backend registers a bot for the first POST; createBot drops the
\* response and goes on: const response = await api.post("/bots", payload)
CreateBotFirstOk(r) ==
    /\ r \in appNet /\ r.op = "create_bot" /\ r.arg = "first"
    /\ srvBots < MaxBots
    /\ srvBots' = srvBots + 1
    /\ appNet' = (appNet \ {r})
                    \cup {[AppReq("create_bot", "second", r.body) EXCEPT !.live = r.live]}
    /\ toast' = ""
    /\ UNCHANGED <<authSide, pageVars, srvRooms, srvMember, srvChannels, srvLog,
                   srvBounty, srvUpdates>>

\* the backend registers a bot for the second POST: setLatestSecret,
\* toast.success, setForm, loadBots()
CreateBotOk(r) ==
    /\ r \in appNet /\ r.op = "create_bot" /\ r.arg = "second"
    /\ srvBots < MaxBots
    /\ srvBots' = srvBots + 1
    /\ latestSecret' = IF r.live THEN NextSecret ELSE latestSecret
    /\ botForm' = IF r.live THEN "" ELSE botForm
    /\ toast' = "Bot registered."
    /\ appNet' = (appNet \ {r})
                    \cup {[AppReq("bots", "", "") EXCEPT !.live = r.live]}
    /\ UNCHANGED <<authSide, shellVars, sideVars, roomVars, chatVars, bountiesVars,
                   detailVars, bots, srvRooms, srvMember, srvChannels, srvLog,
                   srvBounty, srvUpdates>>

\* either POST is rejected or lost: catch (error) { toast.error(...) }
CreateBotFail(r) ==
    /\ r \in appNet /\ r.op = "create_bot"
    /\ toast' = "Unable to create bot."
    /\ appNet' = appNet \ {r}
    /\ UNCHANGED <<authSide, pageVars, appSrvVars>>

InitBots == InApp("/app/bots", "", NoId)

NextBots ==
    \/ \E r \in appNet : FetchRoomsOk(r)
    \/ \E r \in appNet : LoadBotsOk(r)
    \/ \E r \in appNet : LoadBotsFail(r)
    \/ \E v \in {"", "filled"} : SetBotForm(v)
    \/ CreateBot
    \/ \E r \in appNet : CreateBotFirstOk(r)
    \/ \E r \in appNet : CreateBotOk(r)
    \/ \E r \in appNet : CreateBotFail(r)
    \/ \E t \in {"/app/bounties", "/app/bots"} : FollowLink(t)
    \/ \E r \in appNet : LoadBountiesOk(r)

SpecBots == InitBots /\ [][NextBots]_vars

-----------------------------------------------------------------------------
(* The Bounties page and its filters *)

InitFilters == InApp("/app/bounties", "", NoId)

NextFilters ==
    \/ \E r \in appNet : FetchRoomsOk(r)
    \/ \E r \in appNet : LoadBountiesOk(r)
    \/ \E r \in appNet : LoadBountiesFail(r)
    \/ \E v \in {"", "open", "claimed"} : SetFilters(v)
    \/ \E b \in BOOLEAN : SetBountyOpen(b)
    \/ \E v \in {"", "filled"} : SetBountyForm(v)
    \/ CreateBounty
    \/ \E r \in appNet : CreateBountyOk(r)
    \/ \E r \in appNet : CreateBountyFail(r)

SpecFilters == InitFilters /\ [][NextFilters]_vars

(* The handlers that report a failed request, from the login of a          *)
(* registered user who is not yet active to the pages under /app          *)

InitHandlers ==
    /\ Init
    /\ location = "/login" /\ spark_token = "none"
    /\ srvUser = [registered |-> TRUE, membership_status |-> "pending",
                  role |-> "member"]

NextHandlers ==
    \/ Bootstrap
    \/ \E v \in {"good"} : SetLoginForm(v)
    \/ HandleLogin
    \/ \E r \in authNet : LoginOk(r)
    \/ \E r \in authNet : LoginFail(r)
    \/ \E v \in {"good"} : SetInvite(v)
    \/ ClaimInvite
    \/ \E r \in authNet : ClaimOk(r)
    \/ \E r \in authNet : ClaimFail(r)
    \/ \E r \in authNet : ClaimMeOk(r)
    \/ \E r \in authNet : ClaimMeFail(r)
    \/ \E r \in appNet : FetchRoomsOk(r)
    \/ \E r \in appNet : LoadBountiesOk(r)
    \/ SetBountyOpen(TRUE)
    \/ SetBountyForm("filled")
    \/ CreateBounty
    \/ \E r \in appNet : CreateBountyFail(r)
    \/ OpenBounty
    \/ \E r \in appNet : LoadBountyOk(r)
    \/ ClaimBounty
    \/ \E r \in appNet : ClaimBountyFail(r)
    \/ SetComment("text")
    \/ AddUpdate
    \/ \E r \in appNet : AddUpdateFail(r)
    \/ SetStatus("submitted")
    \/ UpdateStatus
    \/ \E r \in appNet : UpdateStatusFail(r)
    \/ SetRoomOpen(TRUE)
    \/ SetRoomForm("filled")
    \/ CreateRoom
    \/ \E r \in appNet : CreateRoomFail(r)
    \/ \E s \in {"b"} : SideJoinRoom(s)
    \/ \E r \in appNet : SideJoinRoomFail(r)
    \/ \E s \in {"b"} : SelectRoom(s)
    \/ \E r \in appNet : LoadRoomOk(r)
    \/ JoinRoom
    \/ \E r \in appNet : JoinRoomOk(r)
    \/ \E r \in appNet : JoinRoomFail(r)
    \/ SetChannelOpen(TRUE)
    \/ SetChannelForm("filled")
    \/ CreateChannel
    \/ \E r \in appNet : CreateChannelFail(r)
    \/ \E r \in appNet : ServeMessages(r)
    \/ \E r \in appNet : LoadMessagesOk(r)
    \/ SetDraft("text")
    \/ SendMessage
    \/ \E r \in appNet : SendMessageFail(r)

SpecHandlers == InitHandlers /\ [][NextHandlers]_vars

-----------------------------------------------------------------------------
(* Properties of the authentication and onboarding flows *)

IsActive(u) == u # NoUser /\ u.membership_status = "active"

\* the requests a step sends
Sent(op) ==
    {r \in authNet' \ authNet : r.op = op /\ [r EXCEPT !.live = TRUE] \notin authNet}

\* C1: Membership gating.  The AppShell and the pages under /app are
\* rendered only when loading is false, user is non-null and
\* user.membership_status is "active"; once loading is false the router
\* never rests on a path under /app otherwise: with no user the guard has
\* redirected to /login, with a user that is not active to /join.
C1_MembershipGating ==
    /\ [](AppShellShown => ~loading /\ IsActive(user))
    /\ [](UnderAppShell(location) /\ ~loading => AppShellShown)
    /\ [][(UnderAppShell(location) /\ ~loading' /\ ~IsActive(user'))
            => location' = (IF user' = NoUser THEN "/login" ELSE "/join")]_vars

\* C1 witness: an active member is shown a page under /app after the guard
\* has let the claim of an invite through
C1_Witness ==
    AppShellShown /\ IsActive(user) /\ toast = "Membership activated."

\* C7: Only admins generate invite codes.  POST /admin/invite-codes and
\* GET /admin/audit are sent only when user.role is "admin"; a non-admin on
\* the Settings page is shown "Admin role required." and no audit events.
C7_AdminOnly ==
    /\ [][(Sent("invite_codes") # {} \/ Sent("audit") # {}) => isAdmin(user')]_vars
    /\ [](Showing = "Settings" /\ ~isAdmin(user)
            => /\ AuditCard(user, auditEvents).restricted
               /\ AuditCard(user, auditEvents).events = {}
               /\ ~GenerateEnabled(user))

\* C7 witness: an admin has pressed Generate, and the audit feed is loaded
C7_Witness ==
    /\ Showing = "Settings" /\ isAdmin(user)
    /\ \E r \in authNet : r.op = "invite_codes"
    /\ auditEvents # {}

\* C9: Register first, then activate.  On the Join page a registration is
\* started only when there is no user, and an invite claim or a checkout
\* only when there is a user, of a registered account, whose
\* membership_status is not "active"; a user whose membership_status is
\* "active" is not left on the Join page.
C9_RegisterThenActivate ==
    /\ [][Sent("register") # {} => user = NoUser]_vars
    /\ [][(Sent("claim") # {} \/ Sent("checkout") # {})
            => /\ user # NoUser /\ user.membership_status # "active"
               /\ srvUser.registered]_vars
    /\ [](Showing = "Join" => ~IsActive(user))

\* C9 witness: a registered user who is not active has started a claim
C9_Witness ==
    /\ Showing = "Join" /\ user # NoUser
    /\ \E r \in authNet : r.op = "claim"

\* C10: Status polling.  When the status read by checkPaymentStatus reports
\* a payment that is neither paid nor expired, the Join page requests the
\* status again.
C10_StatusPolling ==
    [][(paymentStatus' = "Payment is processing. Refresh in a moment."
          /\ paymentStatus' # paymentStatus)
        => \E r \in authNet' : r.op = "status"]_vars

-----------------------------------------------------------------------------
(* Properties of the Rooms page and the ChatPanel *)

\* C2: Room join gate.  The Rooms page renders the ChatPanel only while the
\* room it holds is the room of the URL slug and the user has a membership
\* in that room.
C2_RoomJoinGate ==
    RoomsShows = "ChatPanel"
        => /\ room = slug
           /\ slug \in Range(srvRooms)
           /\ srvMember[slug]

\* C3: Arrival order.  An event of type message_created that reaches
\* socket.onmessage puts its message at the end of the messages list and
\* leaves the messages already listed where they are.
C3_ArrivalOrder ==
    [][\A s \in sockets :
          (/\ s.queue # <<>>
           /\ s \notin sockets'
           /\ [s EXCEPT !.queue = Tail(@)] \in sockets'
           /\ Head(s.queue).type = "message_created")
          => messages' = Append(messages, Head(s.queue).message)]_vars

\* C3 witness: two messages have arrived over the socket, one after the
\* other, with no history loaded
C3_Witness ==
    /\ RoomsShows = "ChatPanel" /\ chatLoading
    /\ Len(messages) = 2 /\ messages[1].id < messages[2].id
    /\ \A s \in sockets : s.queue = <<>>

\* C4: Message history plus realtime.  When the history response replaces
\* the messages list, no message of the displayed channel that is already
\* listed (a broadcast that arrived while the request was in flight) is lost.
C4_HistoryPlusRealtime ==
    [][\A r \in appNet :
          (/\ r.op = "messages" /\ r.live /\ r.served /\ r.arg = channelId
           /\ r \notin appNet'
           /\ RoomsShows' = "ChatPanel" /\ ~chatLoading')
          => \A i \in DOMAIN messages :
                messages[i].ch = channelId => messages[i] \in Range(messages')]_vars

\* C5: Channel subscription.  A mounted ChatPanel has at most one open
\* WebSocket, whose URL is getWsUrl of the id of the channel displayed and
\* carries that id as channelId; no socket is open when no ChatPanel is
\* mounted, and none is opened for a channel without an id.
C5_ChannelSubscription ==
    /\ Cardinality(sockets) <= 1
    /\ \A s \in sockets :
          /\ RoomsShows = "ChatPanel"
          /\ s.url = getWsUrl(channelId)
          /\ s.url.channelId = channelId
          /\ s.url.scheme = "wss"
    /\ RoomsShows # "ChatPanel" => sockets = {}
    /\ OpenSocket(NoId) = {}

\* C5 witness: the panel has moved from channel a1 to channel a2 and holds
\* the socket of a2
C5_Witness ==
    /\ RoomsShows = "ChatPanel" /\ channelId = "a2"
    /\ \E s \in sockets : s.url.channelId = "a2"
    /\ \E r \in appNet : r.op = "messages" /\ r.arg = "a1" /\ r.live

-----------------------------------------------------------------------------
(* Properties of the bounty pages *)

-----------------------------------------------------------------------------
(* Properties of the handlers' catch blocks *)

\* the error toasts of handleLogin, claimInvite, joinRoom, createRoom,
\* createChannel, createBounty, claimBounty, addUpdate, updateStatus and
\* sendMessage
HandlerErrors ==
    {"Login failed.", "Invite claim failed.", "Unable to join room.",
     "Room creation failed.", "Channel creation failed.",
     "Unable to create bounty.", "Unable to claim bounty.",
     "Unable to add update.", "Unable to update status.",
     "Message failed to send."}

\* C6: Failure handling without retry or compensation.  The step in which
\* one of the ten handlers raises its error toast ends exactly one request,
\* the failed one, starts no request, and leaves the lists, form fields,
\* draft, dialog flags, user, token and route as they were.
C6_FailureHandling ==
    [][toast' \in HandlerErrors
        => /\ appNet' \subseteq appNet /\ authNet' \subseteq authNet
           /\ Cardinality(appNet \ appNet') + Cardinality(authNet \ authNet') = 1
           /\ UNCHANGED <<pageVars, authVars, routeVars, loginVars, joinVars,
                          settingsVars>>]_vars

\* C6 witness: sendMessage has failed in a mounted ChatPanel; the draft is
\* still in the input and nothing is in flight
C6_Witness ==
    /\ toast = "Message failed to send."
    /\ RoomsShows = "ChatPanel" /\ draft = "text"
    /\ appNet = {} /\ authNet = {}

-----------------------------------------------------------------------------
(* Properties of checkPaymentStatus *)

\* C11: Payment status outcome.  When the status request of a mounted Join
\* page is answered or fails, the message shown is the confirmation only for
\* a paid response, which alone starts refresh(); the expired message only
\* for an expired session, the processing message only for any other
\* response, else "Unable to verify payment status."; that step neither
\* navigates nor changes the user.  Only a refresh() started this way changes
\* the user and navigates to /app, and a failed one does neither.
C11_PaymentStatusOutcome ==
    /\ [][\A r \in authNet :
            (/\ r.op = "status" /\ r.live /\ r \notin authNet'
             /\ started' /\ location' = location)
            => /\ paymentStatus' \in
                    {"Payment confirmed. Membership activated.",
                     "Payment session expired. Try again.",
                     "Payment is processing. Refresh in a moment.",
                     "Unable to verify payment status."}
               /\ paymentStatus' = "Payment confirmed. Membership activated."
                    <=> \E m \in authNet' : m.op = "status_me"
               /\ paymentStatus' = "Payment confirmed. Membership activated."
                    => srvPayment = "paid"
               /\ paymentStatus' = "Payment session expired. Try again."
                    => srvPayment = "expired"
               /\ paymentStatus' = "Payment is processing. Refresh in a moment."
                    => srvPayment \notin {"paid", "expired"}
               /\ user' = user]_vars
    /\ [][\A m \in authNet :
            (/\ m.op = "status_me" /\ m.live /\ m \notin authNet'
             /\ started' /\ search' = search /\ user' = user)
            => /\ location' = location
               /\ paymentStatus' = "Unable to verify payment status."]_vars
    /\ [](\A m \in authNet : m.op = "status_me" => srvPayment = "paid")

\* C11 witness: the session has expired and the Join page says so
C11_Witness ==
    /\ Showing = "Join" /\ search = "session_id"
    /\ paymentStatus = "Payment session expired. Try again."
    /\ srvPayment = "expired"

-----------------------------------------------------------------------------
(* Properties of the Bounties page *)

\* C12: Filtered bounty list.  When the answer to a list request is taken
\* and no list request of the page is left in flight, the bounties displayed
\* are the server's list for the filters now set.
C12_FilteredBountyList ==
    [][\A r \in appNet :
          (/\ r.op = "bounties" /\ r.live /\ r \notin appNet'
           /\ toast' # "Unable to load bounties."
           /\ Showing' = "Bounties"
           /\ \A q \in appNet' : q.op # "bounties")
          => bounties' = BountyList(filters')]_vars

\* C13: Bounty status enum.  With every status held by the server one of
\* open, claimed, submitted, approved, cancelled, every status that
\* updateStatus sends is one of these five, and so is the status selected
\* whenever the status control is rendered.
C13_StatusEnum ==
    /\ \A i \in DOMAIN srvBounty : srvBounty[i] \in Statuses
    /\ \A r \in appNet : r.op = "status" => r.body \in Statuses
    /\ (Showing = "BountyDetail" /\ bounty # NoBounty) => status \in Statuses

\* C13 witness: a status selected by the user is on its way for a bounty
\* that was claimed before
C13_Witness ==
    /\ Showing = "BountyDetail" /\ srvBounty["b1"] = "claimed"
    /\ \E r \in appNet : r.op = "status" /\ r.body = "approved" /\ r.live

-----------------------------------------------------------------------------
(* Properties of the route table *)

\* C14: Activity and ops pages are reachable.  When a browser that holds the
\* token of an active member is pointed at /app/activity or /app/ops, the
\* effects of the first render leave it on that path, which the route table
\* serves under the AppShell.
C14_ActivityOpsReachable ==
    [][(/\ location \in {"/app/activity", "/app/ops"}
        /\ ~started /\ started'
        /\ spark_token = "tok" /\ IsActive(UserView(srvUser)))
       => location' = location /\ UnderAppShell(location')]_vars

-----------------------------------------------------------------------------
(* Properties of the ChatPanel's list *)

\* C15: No duplicate chat messages.  No message id occurs more than once in
\* the messages list of the ChatPanel.
C15_NoDuplicateMessages ==
    \A i, j \in DOMAIN messages : messages[i].id = messages[j].id => i = j

-----------------------------------------------------------------------------
(* Properties of the Bots page *)

\* C16: One registration per click.  The answer to a POST /bots of createBot
\* is followed by no further POST /bots of the same invocation, and the
\* request whose failure raises "Unable to create bot." is the only POST of
\* its invocation, so that no bot was registered for it.
C16_OneRegistrationPerClick ==
    [][\A r \in appNet :
          (r.op = "create_bot" /\ r \notin appNet')
          => /\ \A q \in appNet' \ appNet : q.op # "create_bot"
             /\ toast' = "Unable to create bot." => r.arg = "first"]_vars

-----------------------------------------------------------------------------
(* Properties of the Rooms page's navigation *)

\* C17: Auto-selected channel belongs to the room.  Whenever the Rooms page
\* comes to rest on a new /app/rooms/<slug>/<channelId>, the automatic
\* selection of a channel included, <slug> names a room of the backend and
\* <channelId> is the id of one of that room's channels.
C17_AutoChannelOfRoom ==
    [][(/\ ShowingNext = "Rooms" /\ channelId' # NoId
        /\ <<slug', channelId'>> # <<slug, channelId>>)
       => /\ slug' \in Range(srvRooms')
          /\ channelId' \in Range(srvChannels'[slug'])]_vars

-----------------------------------------------------------------------------
(* C18: logout is final *)

\* nobody is logged in: no user, no stored token, no Authorization header,
\* and bootstrap() has finished
LoggedOut ==
    /\ started /\ ~loading
    /\ user = NoUser /\ spark_token = "none" /\ authHeader = "none"

\* C18: once nobody is logged in, as after logout(), the user stays null,
\* no token is stored and no Authorization header is set until a POST
\* /auth/login or POST /auth/register succeeds; in particular the answer to
\* a GET /me that refresh() or bootstrap() sent earlier changes none of them.
C18_LogoutIsFinal ==
    [][(/\ LoggedOut
        /\ started'
        /\ \/ user' # NoUser
           \/ spark_token' # "none"
           \/ authHeader' # "none")
       => \E r \in authNet \ authNet' : r.op \in {"login", "register"}]_vars
-----------------------------------------------------------------------------
(* C19: a stored token that GET /me rejects *)

\* C19: when bootstrap() has sent GET /me for a stored token and the
\* request fails, the token is removed from localStorage, the Authorization
\* header is cleared and the user is null; loading is true only while the
\* first effects have not run or that GET /me is still awaited, so it
\* becomes false whatever the answer; and once loading is false a visitor
\* of /app without a user has been sent to /login.
C19_RejectedStoredToken ==
    /\ [][\A r \in authNet :
             (/\ r.op = "bootstrap_me" /\ r \notin authNet' /\ started'
              /\ (~Authorized(r) \/ user' # UserView(srvUser)))
             => /\ spark_token' = "none" /\ authHeader' = "none"
                /\ user' = NoUser /\ ~loading']_vars
    /\ [](loading => (~started \/ \E r \in authNet : r.op = "bootstrap_me"))
    /\ [][(UnderAppShell(location) /\ started' /\ ~loading' /\ user' = NoUser)
            => location' = "/login"]_vars
====
